---- MODULE Spec2Model ----
(***************************************************************************)
(* Model of wordle_solver.py: the feedback simulation                      *)
(* (Game.automatic_check), the per-letter constraint records (CharInfo,    *)
(* AllInfo), the guess heuristic (Game.automatic_guess) and the loop of    *)
(* Main.game_loop that drives them.                                        *)
(*                                                                         *)
(* A word is a sequence of characters, a character is a string.  Python    *)
(* positions are 0-based: the position sets of CharInfo hold Python        *)
(* positions, and word[i + 1] reads Python's word[i].                      *)
(***************************************************************************)
EXTENDS Integers, Sequences, FiniteSets, TLC

VARIABLES
    file,            \* the tokens re.findall finds in the words file, in file order
    words,           \* Main.words, passed to Game as Game.words (a list)
    user_guess,      \* --guess
    user_check,      \* --check
    secret_word,     \* Game.secret_word
    word_size,       \* Game.word_size
    all_info,        \* Game.all_info.char_info
    possible_words,  \* Game.possible_words
    num_guesses,     \* num_guesses of game_loop
    guess,           \* guess of game_loop
    guess_result,    \* guess_result of game_loop
    history,         \* the guess results merged in this game, as printed
    pc,              \* "play", "solved", "gaveup", "crashed"
    error            \* the exception that ended the program, or "none"

vars == <<file, words, user_guess, user_check, secret_word, word_size, all_info,
          possible_words, num_guesses, guess, guess_result, history, pc, error>>

----------------------------------------------------------------------------
(* Bounds *)

\* rounds an interactive user (guessing or checking) plays in one game
MaxGuesses == 2

\* longest word handed to automatic_check on its own
MaxLen == 3

----------------------------------------------------------------------------
(* Constants of the program *)

NO_MATCH == 0
WRONG_POSITION == 1
CORRECT_POSITION == 2

MatchStatus == {NO_MATCH, WRONG_POSITION, CORRECT_POSITION}

\* math.inf; every count of the model is far below it
inf == 1000

\* result[i] before automatic_check has decided position i
None == -1

\* actual_letters[j] once automatic_check has consumed it; never a character
Consumed == "None"

\* automatic_guess's None; a word is never empty (\w+)
NoGuess == << >>

\* the placeholder secret of a game checked by the user
Placeholder == <<"<", "?", ">">>

Letters ==
    <<"A", "B", "C", "D", "E", "F", "G", "H", "I", "J", "K", "L", "M",
      "N", "O", "P", "Q", "R", "S", "T", "U", "V", "W", "X", "Y", "Z">>

ascii_uppercase == {Letters[k] : k \in 1..Len(Letters)}

----------------------------------------------------------------------------
(* Helpers *)

Range(s) == {s[i] : i \in 1..Len(s)}

SetMin(S) == CHOOSE x \in S : \A y \in S : x <= y

Min2(a, b) == IF a <= b THEN a ELSE b

Max2(a, b) == IF a >= b THEN a ELSE b

\* word.count(char)
Count(word, char) == Cardinality({i \in 1..Len(word) : word[i] = char})

----------------------------------------------------------------------------
(* Characters: the capitals, two lower-case letters and an accented A in   *)
(* both cases ("A_acute" is U+00C1, "a_acute" is U+00E1).                  *)

\* ord(c), the order sorted() compares characters by
ord(c) ==
    IF c \in ascii_uppercase
    THEN 64 + (CHOOSE k \in 1..Len(Letters) : Letters[k] = c)
    ELSE CASE c = "a" -> 97
           [] c = "b" -> 98
           [] c = "A_acute" -> 193
           [] c = "a_acute" -> 225
           [] OTHER -> 0

\* str.upper() on one character
upper(c) ==
    CASE c = "a" -> "A"
      [] c = "b" -> "B"
      [] c = "a_acute" -> "A_acute"
      [] OTHER -> c

\* NFD decomposition of one character with the combining marks (Mn) dropped
strip_marks(c) ==
    CASE c = "A_acute" -> "A"
      [] c = "a_acute" -> "a"
      [] OTHER -> c

str_upper(s) == [i \in 1..Len(s) |-> upper(s[i])]

normalize(s) == [i \in 1..Len(s) |-> strip_marks(upper(s[i]))]

\* a < b for Python strings: by code point, a proper prefix first
StrLess(a, b) ==
    \/ /\ Len(a) < Len(b)
       /\ \A i \in 1..Len(a) : a[i] = b[i]
    \/ \E k \in 1..Min2(Len(a), Len(b)) :
          /\ \A i \in 1..(k - 1) : a[i] = b[i]
          /\ ord(a[k]) < ord(b[k])

----------------------------------------------------------------------------
(* Main.__init__ *)

\* normalized_words as the dict comprehension builds it: a key keeps the
\* place of its first insertion and the value of its last
RECURSIVE DictInsertAll(_, _, _, _)
DictInsertAll(sorted, i, keys, vals) ==
    IF i > Len(sorted) THEN [keys |-> keys, vals |-> vals]
    ELSE LET word == sorted[i]
             key == normalize(word)
             at == {p \in 1..Len(keys) : keys[p] = key}
         IN  IF at = {}
             THEN DictInsertAll(sorted, i + 1, Append(keys, key), Append(vals, word))
             ELSE DictInsertAll(sorted, i + 1, keys,
                                [vals EXCEPT ![SetMin(at)] = word])

normalized_words_of(sorted) == DictInsertAll(sorted, 1, << >>, << >>)

\* the list without the sort, as a words file would be read in file order
Main_words_unsorted(f) ==
    normalized_words_of([i \in 1..Len(f) |-> str_upper(f[i])]).vals

\* Main.words for the words file f
Main_words(f) ==
    normalized_words_of(SortSeq([i \in 1..Len(f) |-> str_upper(f[i])], StrLess)).vals

\* self.normalized_words.get(normalize(text)); every value's key is its
\* own normalisation
normalized_words_get(ws, text) ==
    LET hit == {k \in 1..Len(ws) : normalize(ws[k]) = normalize(text)}
    IN  IF hit = {} THEN NoGuess ELSE ws[SetMin(hit)]

----------------------------------------------------------------------------
(* GuessResult *)

\* GuessResult.__bool__
GuessResult_bool(gr) ==
    \A i \in 1..Len(gr.result) : gr.result[i] = CORRECT_POSITION

----------------------------------------------------------------------------
(* CharInfo *)

\* CharInfo(char)
CharInfo(char) ==
    [char |-> char, correct_positions |-> {}, wrong_positions |-> {},
     min_amount |-> 0, max_amount |-> inf]

\* CharInfo.match: "True", "False", or "IndexError" when word[i] is read
\* past the end of the word.  The position sets are walked in increasing
\* order, as CPython walks a set of small integers.
CharInfo_match(self, word) ==
    LET n == Len(word)
        badc == {i \in self.correct_positions : i >= n \/ word[i + 1] # self.char}
        badw == {i \in self.wrong_positions : i >= n \/ word[i + 1] = self.char}
        count == Count(word, self.char)
    IN  IF badc # {}
        THEN (IF SetMin(badc) >= n THEN "IndexError" ELSE "False")
        ELSE IF badw # {}
        THEN (IF SetMin(badw) >= n THEN "IndexError" ELSE "False")
        ELSE IF count < self.min_amount \/ count > self.max_amount
        THEN "False"
        ELSE "True"

\* min_amount adds up over the guesses instead of taking the maximum
CharInfo_add_summing(self, match_count, has_mismatches, correct_positions, wrong_positions) ==
    LET cp == self.correct_positions \cup correct_positions
        wp == self.wrong_positions \cup wrong_positions
    IN  [char |-> self.char,
         correct_positions |-> cp,
         wrong_positions |-> wp,
         min_amount |-> Max2(self.min_amount + match_count, Cardinality(cp)),
         max_amount |-> IF has_mismatches THEN match_count ELSE self.max_amount]

\* a letter with a NO_MATCH is taken to be absent altogether
CharInfo_add_absent(self, match_count, has_mismatches, correct_positions, wrong_positions) ==
    LET cp == self.correct_positions \cup correct_positions
        wp == self.wrong_positions \cup wrong_positions
    IN  [char |-> self.char,
         correct_positions |-> cp,
         wrong_positions |-> wp,
         min_amount |-> Max2(Max2(self.min_amount, match_count), Cardinality(cp)),
         max_amount |-> IF has_mismatches THEN 0 ELSE self.max_amount]

\* CharInfo.add; a missing defaultdict entry (None) adds no position
CharInfo_add(self, match_count, has_mismatches, correct_positions, wrong_positions) ==
    LET cp == self.correct_positions \cup correct_positions
        wp == self.wrong_positions \cup wrong_positions
    IN  [char |-> self.char,
         correct_positions |-> cp,
         wrong_positions |-> wp,
         min_amount |-> Max2(Max2(self.min_amount, match_count), Cardinality(cp)),
         max_amount |-> IF has_mismatches THEN match_count ELSE self.max_amount]

----------------------------------------------------------------------------
(* AllInfo *)

\* AllInfo(): char_info
AllInfo == [char \in ascii_uppercase |-> CharInfo(char)]

\* AllInfo.match: the letters are tried in the order of ascii_uppercase and
\* the first one that rejects the word, or raises, decides
AllInfo_match(self, word) ==
    LET w == normalize(word)
        bad == {k \in 1..Len(Letters) : CharInfo_match(self[Letters[k]], w) # "True"}
    IN  IF bad = {} THEN "True" ELSE CharInfo_match(self[Letters[SetMin(bad)]], w)

\* AllInfo.filter raises when match raises for one of the words
AllInfo_filter_raises(self, ws) ==
    \E w \in ws : AllInfo_match(self, w) = "IndexError"

\* AllInfo.filter
AllInfo_filter(self, ws) == {w \in ws : AllInfo_match(self, w) = "True"}

\* line 118, for one letter: CharInfo.add with what the guess tells about
\* it; zip stops at the shorter of the word and the result
AddLetter(self, gr, c) ==
    LET w == normalize(gr.word)
        n == Min2(Len(w), Len(gr.result))
        at == {i \in 1..n : w[i] = c}
    IN  CharInfo_add(self[c],
                     Cardinality({i \in at : gr.result[i] # NO_MATCH}),
                     \E i \in at : gr.result[i] = NO_MATCH,
                     {i - 1 : i \in {j \in at : gr.result[j] = CORRECT_POSITION}},
                     {i - 1 : i \in {j \in at : gr.result[j] # CORRECT_POSITION}})

\* known_char_count over the first k letters
RECURSIVE SumMinAmount(_, _, _)
SumMinAmount(self, gr, k) ==
    IF k = 0 THEN 0
    ELSE AddLetter(self, gr, Letters[k]).min_amount + SumMinAmount(self, gr, k - 1)

\* a WRONG_POSITION is recorded like a NO_MATCH: the letter counts as missing
AllInfo_add_strict(self, gr) ==
    LET size == Len(gr.word)
        strict == [gr EXCEPT !.result =
                     [i \in 1..Len(gr.result) |->
                        IF gr.result[i] = CORRECT_POSITION
                        THEN CORRECT_POSITION ELSE NO_MATCH]]
        unknown_char_count == size - SumMinAmount(self, strict, Len(Letters))
    IN  [c \in ascii_uppercase |->
           LET r == AddLetter(self, strict, c)
           IN  [r EXCEPT !.max_amount =
                  Min2(Min2(r.max_amount, r.min_amount + unknown_char_count),
                       size - Cardinality(r.wrong_positions))]]

\* AllInfo.__add__
AllInfo_add(self, gr) ==
    LET size == Len(gr.word)
        unknown_char_count == size - SumMinAmount(self, gr, Len(Letters))
    IN  [c \in ascii_uppercase |->
           LET r == AddLetter(self, gr, c)
           IN  [r EXCEPT !.max_amount =
                  Min2(Min2(r.max_amount, r.min_amount + unknown_char_count),
                       size - Cardinality(r.wrong_positions))]]

----------------------------------------------------------------------------
(* Game.automatic_check *)

\* guess_normalized[i] is read for every i below the secret's length
automatic_check_raises(secret, g) == Len(normalize(g)) < Len(normalize(secret))

\* "Search for exact match"
ExactPass(g, actual) ==
    [result |-> [i \in 1..Len(actual) |->
                    IF g[i] = actual[i] THEN CORRECT_POSITION ELSE None],
     actual_letters |-> [i \in 1..Len(actual) |->
                    IF g[i] = actual[i] THEN Consumed ELSE actual[i]]]

\* the second pass without "actual_letters[j] = None": one letter of the
\* secret answers every misplaced copy of it in the guess
RECURSIVE WrongPositionPass_no_consume(_, _, _, _)
WrongPositionPass_no_consume(i, g, actual_letters, result) ==
    IF i > Len(result) THEN result
    ELSE IF result[i] # None
    THEN WrongPositionPass_no_consume(i + 1, g, actual_letters, result)
    ELSE LET J == {j \in 1..Len(actual_letters) : g[i] = actual_letters[j]}
         IN  WrongPositionPass_no_consume(i + 1, g, actual_letters,
                 [result EXCEPT ![i] = IF J = {} THEN NO_MATCH ELSE WRONG_POSITION])

\* the second pass consuming every copy of the letter at once: a letter
\* gets one WRONG_POSITION at most
RECURSIVE WrongPositionPass_consume_all(_, _, _, _)
WrongPositionPass_consume_all(i, g, actual_letters, result) ==
    IF i > Len(result) THEN result
    ELSE IF result[i] # None
    THEN WrongPositionPass_consume_all(i + 1, g, actual_letters, result)
    ELSE LET J == {j \in 1..Len(actual_letters) : g[i] = actual_letters[j]}
         IN  IF J = {}
             THEN WrongPositionPass_consume_all(i + 1, g, actual_letters,
                                                [result EXCEPT ![i] = NO_MATCH])
             ELSE WrongPositionPass_consume_all(i + 1, g,
                      [j \in 1..Len(actual_letters) |->
                          IF j \in J THEN Consumed ELSE actual_letters[j]],
                      [result EXCEPT ![i] = WRONG_POSITION])

\* "Search for wrong position match", from position i on
RECURSIVE WrongPositionPass(_, _, _, _)
WrongPositionPass(i, g, actual_letters, result) ==
    IF i > Len(result) THEN result
    ELSE IF result[i] # None
    THEN WrongPositionPass(i + 1, g, actual_letters, result)
    ELSE LET J == {j \in 1..Len(actual_letters) : g[i] = actual_letters[j]}
         IN  IF J = {}
             THEN WrongPositionPass(i + 1, g, actual_letters,
                                    [result EXCEPT ![i] = NO_MATCH])
             ELSE WrongPositionPass(i + 1, g,
                                    [actual_letters EXCEPT ![SetMin(J)] = Consumed],
                                    [result EXCEPT ![i] = WRONG_POSITION])

\* Game.automatic_check, where it does not raise
automatic_check(secret, g) ==
    LET first == ExactPass(normalize(g), normalize(secret))
    IN  [word |-> g,
         result |-> WrongPositionPass(1, normalize(g), first.actual_letters, first.result)]

----------------------------------------------------------------------------
(* Game.automatic_guess.  The code divides every count by len(self.words);  *)
(* the model keeps the counts and compares the scores as exact fractions.   *)

\* letter_pos_prob[char][i] * len(self.words)
letter_pos_prob(pw, char, i) ==
    Cardinality({w \in pw : i < Len(w) /\ normalize(w)[i + 1] = char})

\* letter_count_prob[char][k] * len(self.words)
letter_count_prob(pw, char, k) ==
    Cardinality({w \in pw : Count(normalize(w), char) = k})

\* sum(letter_count_prob[char][lo:hi + 1]) * len(self.words)
RECURSIVE SumCountProb(_, _, _, _)
SumCountProb(pw, char, lo, hi) ==
    IF lo > hi THEN 0
    ELSE letter_count_prob(pw, char, lo) + SumCountProb(pw, char, lo + 1, hi)

\* max(p_correct, p_pos, p_wrong) * len(self.words) at Python position i - 1
ScoreFactor(pw, size, w, i) ==
    LET char == w[i]
        count == Cardinality({j \in 1..i : w[j] = char})
        p_correct == letter_pos_prob(pw, char, i - 1)
        p_pos == Max2(SumCountProb(pw, char, count, size) - p_correct, 0)
        p_wrong == SumCountProb(pw, char, 0, count - 1)
    IN  Max2(Max2(p_correct, p_pos), p_wrong)

RECURSIVE ScoreProduct(_, _, _, _)
ScoreProduct(pw, size, w, i) ==
    IF i = 0 THEN 1
    ELSE ScoreProduct(pw, size, w, i - 1) * ScoreFactor(pw, size, w, i)

\* score of word: num / total ^ len
Score(pw, size, word) ==
    [num |-> ScoreProduct(pw, size, normalize(word), Len(word)), len |-> Len(word)]

\* a < b for two scores over the vocabulary size total
ScoreLess(a, b, total) == a.num * (total ^ b.len) < b.num * (total ^ a.len)

\* the scan with "score > best_score": nothing is above the initial inf
RECURSIVE ScanWords_greatest(_, _, _, _, _)
ScanWords_greatest(ws, pw, size, k, best_guess) ==
    IF k > Len(ws) THEN best_guess
    ELSE IF best_guess # NoGuess
            /\ ScoreLess(Score(pw, size, best_guess), Score(pw, size, ws[k]), Len(ws))
         THEN ScanWords_greatest(ws, pw, size, k + 1, ws[k])
         ELSE ScanWords_greatest(ws, pw, size, k + 1, best_guess)

\* "for word in self.words" from the k-th word on; best_score is the score
\* of best_guess, and inf while best_guess is None
RECURSIVE ScanWords(_, _, _, _, _)
ScanWords(ws, pw, size, k, best_guess) ==
    IF k > Len(ws) THEN best_guess
    ELSE IF best_guess = NoGuess
            \/ ScoreLess(Score(pw, size, ws[k]), Score(pw, size, best_guess), Len(ws))
         THEN ScanWords(ws, pw, size, k + 1, ws[k])
         ELSE ScanWords(ws, pw, size, k + 1, best_guess)

\* Game.automatic_guess
automatic_guess(ws, pw, size) ==
    IF Cardinality(pw) = 1 THEN CHOOSE w \in pw : TRUE
    ELSE IF Cardinality(pw) = 0 THEN NoGuess
    ELSE ScanWords(ws, pw, size, 1, NoGuess)

----------------------------------------------------------------------------
(* Words files *)

SLATE == <<"S", "L", "A", "T", "E">>
CRANE == <<"C", "R", "A", "N", "E">>
TRACE == <<"T", "R", "A", "C", "E">>
GRACE == <<"G", "R", "A", "C", "E">>
BRACE == <<"B", "R", "A", "C", "E">>
SPEED == <<"S", "P", "E", "E", "D">>
ERASE == <<"E", "R", "A", "S", "E">>

\* AA AB BC CB, with AB spelled twice: "ab" and, accented, "ÁB"
PairsFile ==
    <<<<"C", "B">>, <<"A_acute", "B">>, <<"a", "b">>, <<"b", "C">>, <<"A", "A">>>>

\* AA AB CB
ShortFile == <<<<"C", "B">>, <<"a", "b">>, <<"A", "A">>>>

\* three-letter words with repeated letters
TriplesFile == <<<<"B", "A", "A">>, <<"A", "A", "B">>, <<"A", "B", "C">>>>

\* six words over A and B, one accented, and two with a C
CubeFile ==
    <<<<"B", "B", "A">>, <<"B", "A", "B">>, <<"A", "B", "B">>,
      <<"a_acute", "b", "a">>, <<"A", "A", "B">>, <<"A", "A", "A">>,
      <<"C", "A", "B">>, <<"A", "C", "C">>>>

ScenarioFile == <<SLATE, CRANE, TRACE, GRACE, BRACE>>

\* words of different lengths in one file
MixedFile == <<<<"A", "B", "C">>, <<"A", "B">>, <<"B", "A">>>>

\* words files for the games checked by automatic_check
AutoFiles == {PairsFile, CubeFile, ScenarioFile}

MixedFiles == {MixedFile}

----------------------------------------------------------------------------
(* Main.game_loop *)

NoResult == [word |-> NoGuess, result |-> << >>]

\* what the user may type at "Next guess: "
InputTexts == Range(file) \cup {<<"Z", "Z">>}

\* Game(self.words, secret_word) and num_guesses = 0, at the start
StartGame(ws, secret) ==
    /\ secret_word = secret
    /\ word_size = Len(ws[1])
    /\ all_info = AllInfo
    /\ possible_words = Range(ws)
    /\ num_guesses = 0
    /\ guess = NoGuess
    /\ guess_result = NoResult
    /\ history = << >>
    /\ pc = "play"
    /\ error = "none"

\* Main(args.words).game_loop(args.guess, args.check) up to the first round
InitWith(files, guess_modes, check_modes) ==
    /\ file \in files
    /\ words = Main_words(file)
    /\ user_guess \in guess_modes
    /\ user_check \in check_modes
    /\ \E secret \in Range(words) :
          StartGame(words, IF user_check THEN Placeholder ELSE secret)

\* game.merge_result(guess_result) and the test that ends the game
MergeResult(gr) ==
    /\ guess_result' = gr
    /\ all_info' = AllInfo_add(all_info, gr)
    /\ IF AllInfo_filter_raises(all_info', possible_words)
       THEN /\ possible_words' = possible_words
            /\ history' = history
            /\ pc' = "crashed"
            /\ error' = "IndexError"
       ELSE /\ possible_words' = AllInfo_filter(all_info', possible_words)
            /\ history' = Append(history, gr)
            /\ pc' = IF GuessResult_bool(gr) THEN "solved" ELSE "play"
            /\ error' = error

\* "Giving up on this word!"
GiveUp ==
    /\ guess' = NoGuess
    /\ pc' = "gaveup"
    /\ UNCHANGED <<num_guesses, guess_result, all_info, possible_words, history, error>>

\* one round checked by game.automatic_check
AutomaticCheckRound(g) ==
    /\ guess' = g
    /\ num_guesses' = num_guesses + 1
    /\ IF automatic_check_raises(secret_word, g)
       THEN /\ pc' = "crashed"
            /\ error' = "IndexError"
            /\ UNCHANGED <<guess_result, all_info, possible_words, history>>
       ELSE MergeResult(automatic_check(secret_word, g))

\* one round checked by the user, who types results
UserCheckRound(g, results) ==
    /\ guess' = g
    /\ num_guesses' = num_guesses + 1
    /\ MergeResult([word |-> g, result |-> results])

\* a round of the solver playing against a known secret
AutomaticGuessAutomaticCheck ==
    /\ pc = "play"
    /\ ~user_guess
    /\ ~user_check
    /\ LET g == automatic_guess(words, possible_words, word_size)
       IN  IF g = NoGuess THEN GiveUp ELSE AutomaticCheckRound(g)
    /\ UNCHANGED <<file, words, user_guess, user_check, secret_word, word_size>>

\* a round of the solver with the user typing the feedback
AutomaticGuessUserCheck ==
    /\ pc = "play"
    /\ ~user_guess
    /\ user_check
    /\ num_guesses < MaxGuesses
    /\ LET g == automatic_guess(words, possible_words, word_size)
       IN  IF g = NoGuess THEN GiveUp
           ELSE \E results \in [1..Len(g) -> MatchStatus] : UserCheckRound(g, results)
    /\ UNCHANGED <<file, words, user_guess, user_check, secret_word, word_size>>

\* a round of the user guessing against a known secret
UserGuessAutomaticCheck ==
    /\ pc = "play"
    /\ user_guess
    /\ ~user_check
    /\ num_guesses < MaxGuesses
    /\ \E text \in InputTexts :
          LET g == normalized_words_get(words, text)
          IN  /\ g # NoGuess
              /\ AutomaticCheckRound(g)
    /\ UNCHANGED <<file, words, user_guess, user_check, secret_word, word_size>>

\* a round of the user guessing and typing the feedback
UserGuessUserCheck ==
    /\ pc = "play"
    /\ user_guess
    /\ user_check
    /\ num_guesses < MaxGuesses
    /\ \E text \in InputTexts :
          LET g == normalized_words_get(words, text)
          IN  /\ g # NoGuess
              /\ \E results \in [1..Len(g) -> MatchStatus] : UserCheckRound(g, results)
    /\ UNCHANGED <<file, words, user_guess, user_check, secret_word, word_size>>

\* the next turn of "for game_num, secret_word in enumerate(...)"
NewGame ==
    /\ pc \in {"solved", "gaveup"}
    /\ \E secret \in Range(words) :
          secret_word' = IF user_check THEN Placeholder ELSE secret
    /\ word_size' = Len(words[1])
    /\ all_info' = AllInfo
    /\ possible_words' = Range(words)
    /\ num_guesses' = 0
    /\ guess' = NoGuess
    /\ guess_result' = NoResult
    /\ history' = << >>
    /\ pc' = "play"
    /\ UNCHANGED <<file, words, user_guess, user_check, error>>

----------------------------------------------------------------------------
(* The program on a words file of one word length, in its four modes.    *)
(* The games whose feedback the user types run on the shorter files.      *)

InitAuto == InitWith(AutoFiles, BOOLEAN, {FALSE})

InitUserGuessUserCheck == InitWith({ShortFile}, {TRUE}, {TRUE})

InitAutomaticGuessUserCheck == InitWith({TriplesFile}, {FALSE}, {TRUE})

Init ==
    \/ InitWith({PairsFile, CubeFile}, BOOLEAN, {FALSE})
    \/ InitUserGuessUserCheck
    \/ InitAutomaticGuessUserCheck

Next ==
    \/ AutomaticGuessAutomaticCheck
    \/ AutomaticGuessUserCheck
    \/ UserGuessAutomaticCheck
    \/ UserGuessUserCheck
    \/ NewGame

Spec == Init /\ [][Next]_vars

(* The program checking the guesses itself *)

NextAuto ==
    \/ AutomaticGuessAutomaticCheck
    \/ UserGuessAutomaticCheck
    \/ NewGame

SpecAuto == InitAuto /\ [][NextAuto]_vars

\* "for guess_num in itertools.count(1)": a game the solver is playing goes
\* on to its next round, which counts a guess or gives up
NextRound ==
    /\ pc = "play"
    /\ ~user_guess
    /\ ~user_check
    /\ num_guesses' \in {num_guesses, num_guesses + 1}
    /\ pc' \in {"play", "solved", "gaveup", "crashed"}

\* the loop keeps running while the solver has a round to play
SpecAutoLive == SpecAuto /\ WF_<<num_guesses, pc>>(NextRound)

(* The program on a words file of mixed word lengths, the user guessing *)

InitMixed == InitWith(MixedFiles, {TRUE}, BOOLEAN)

NextMixed ==
    \/ UserGuessAutomaticCheck
    \/ UserGuessUserCheck
    \/ NewGame

SpecMixed == InitMixed /\ [][NextMixed]_vars

(* Game.automatic_check on its own, on any two words *)

CheckChars == {"A", "B", "a_acute"}

\* the words over CheckChars of up to MaxLen characters, and two of five
CheckWords ==
    UNION {[1..n -> CheckChars] : n \in 1..MaxLen} \cup {SPEED, ERASE}

\* Game([secret], secret)
InitCheck ==
    /\ \E secret \in CheckWords :
          /\ file = <<secret>>
          /\ words = Main_words(file)
          /\ StartGame(words, secret)
    /\ user_guess = FALSE
    /\ user_check = FALSE

\* game.automatic_check(g)
AutomaticCheck ==
    /\ \E g \in CheckWords :
          /\ guess' = g
          /\ IF automatic_check_raises(secret_word, g)
             THEN /\ guess_result' = NoResult
                  /\ error' = "IndexError"
             ELSE /\ guess_result' = automatic_check(secret_word, g)
                  /\ error' = "none"
    /\ UNCHANGED <<file, words, user_guess, user_check, secret_word, word_size,
                   all_info, possible_words, num_guesses, history, pc>>

SpecCheck == InitCheck /\ [][AutomaticCheck]_vars

----------------------------------------------------------------------------
(* Properties of Game.automatic_check, under SpecCheck *)

\* a call of automatic_check on two words of one length has returned
Checked ==
    /\ guess # NoGuess
    /\ error = "none"
    /\ guess_result.word = guess
    /\ Len(guess) = Len(secret_word)

\* C2: for a guess and a secret of one length (compared as normalize leaves
\* them), position i is CORRECT_POSITION exactly when guess[i] = secret[i];
\* for every letter c the guess positions holding c that are not NO_MATCH
\* number min(count of c in the guess, count of c in the secret); and among
\* the positions of c that are not CORRECT_POSITION no WRONG_POSITION comes
\* after a NO_MATCH.
C2_DuplicateLetterFeedback ==
    Checked =>
        LET g == normalize(guess)
            s == normalize(secret_word)
            r == guess_result.result
        IN  /\ Len(r) = Len(g)
            /\ \A i \in 1..Len(g) : (r[i] = CORRECT_POSITION) <=> (g[i] = s[i])
            /\ \A i \in 1..Len(g) : r[i] \in MatchStatus
            /\ \A c \in Range(g) :
                  Cardinality({i \in 1..Len(g) : g[i] = c /\ r[i] # NO_MATCH})
                      = Min2(Count(g, c), Count(s, c))
            /\ \A i, j \in 1..Len(g) :
                  (i < j /\ g[i] = g[j] /\ r[i] = NO_MATCH) => r[j] # WRONG_POSITION

\* a guess with a letter twice out of place, the secret holding it once
C2_Witness ==
    /\ Checked
    /\ \E i, j \in 1..Len(guess) :
          /\ i < j
          /\ normalize(guess)[i] = normalize(guess)[j]
          /\ guess_result.result[i] = WRONG_POSITION
          /\ guess_result.result[j] = NO_MATCH

SpeedAgainstErase == Checked /\ secret_word = ERASE /\ guess = SPEED

\* C6, as claimed: automatic_check of SPEED against ERASE marks exactly one
\* of the two E's of the guess CORRECT_POSITION or WRONG_POSITION, and the
\* other NO_MATCH.
C6_OneEMatched ==
    SpeedAgainstErase =>
        Cardinality({i \in {3, 4} : guess_result.result[i] # NO_MATCH}) = 1

\* C6, amended: ERASE holds two E's, and automatic_check of SPEED against
\* ERASE marks both E's of the guess WRONG_POSITION (S too, P and D NO_MATCH).
C6_BothEsMisplaced ==
    SpeedAgainstErase =>
        guess_result.result =
            <<WRONG_POSITION, NO_MATCH, WRONG_POSITION, WRONG_POSITION, NO_MATCH>>

C6_Witness == SpeedAgainstErase

----------------------------------------------------------------------------
(* Properties of the constraints, under Spec *)

\* len(correct_positions) <= min_amount <= max_amount <= L for every letter
IntervalValid ==
    \A c \in ascii_uppercase :
        /\ Cardinality(all_info[c].correct_positions) <= all_info[c].min_amount
        /\ all_info[c].min_amount <= all_info[c].max_amount
        /\ all_info[c].max_amount <= word_size

\* C1: for every secret S and guess G of the vocabulary and whatever
\* constraints the session holds, if they match S then so do they with
\* automatic_check(G against S) added; and while the feedback comes from
\* automatic_check the secret is matched and is one of possible_words.
C1_Soundness ==
    /\ \A S \in Range(words) : \A G \in Range(words) :
          (AllInfo_match(all_info, S) = "True") =>
              (AllInfo_match(AllInfo_add(all_info, automatic_check(S, G)), S) = "True")
    /\ (~user_check) =>
          /\ AllInfo_match(all_info, secret_word) = "True"
          /\ secret_word \in possible_words

\* two checked rounds have narrowed possible_words and kept the secret
C1_Witness ==
    /\ ~user_check
    /\ Len(history) >= 2
    /\ possible_words # Range(words)
    /\ Cardinality(possible_words) >= 2
    /\ secret_word \in possible_words

\* C3, as claimed: after any merges of guess results of length L, whoever
\* typed them, every letter has
\* len(correct_positions) <= min_amount <= max_amount <= L.
C3_IntervalAfterAnyMerge == (Len(history) >= 1) => IntervalValid

\* C3, amended: after one or more merges of guess results that
\* automatic_check produced against one secret of length L, every letter has
\* len(correct_positions) <= min_amount <= max_amount <= L.
C3_IntervalValid == (~user_check /\ Len(history) >= 1) => IntervalValid

\* a letter whose count the checked guesses have pinned between 1 and L - 1
C3_Witness ==
    /\ ~user_check
    /\ Len(history) >= 2
    /\ \E c \in ascii_uppercase :
          /\ all_info[c].min_amount >= 1
          /\ all_info[c].max_amount < word_size
          /\ all_info[c].correct_positions # {}

\* C4: the state a merge leaves is left as it is by merging the same guess
\* result again (all_info, so every letter's positions and amounts, and
\* possible_words), and the merge adds no word to possible_words.
C4_MergeIdempotent ==
    [][(Len(history') = Len(history) + 1) =>
          /\ AllInfo_add(all_info', guess_result') = all_info'
          /\ ~AllInfo_filter_raises(all_info', possible_words')
          /\ AllInfo_filter(all_info', possible_words') = possible_words'
          /\ possible_words' \subseteq possible_words]_vars

\* the user typed the same results for the same guess twice in a row
C4_Witness ==
    /\ user_check
    /\ Len(history) >= 2
    /\ history[Len(history)] = history[Len(history) - 1]
    /\ possible_words # {}
    /\ possible_words # Range(words)

----------------------------------------------------------------------------
(* Properties of the games checked by automatic_check, under SpecAuto *)

\* the guesses made so far give against w the feedback recorded for them
Replays(w) ==
    \A k \in 1..Len(history) :
        automatic_check(w, history[k].word).result = history[k].result

\* C9: while the feedback comes from automatic_check against one secret,
\* possible_words is the set of the vocabulary words against which every
\* guess made so far gets the feedback recorded for it, and is the set of
\* all the vocabulary words all_info.match accepts.
C9_FilterIsReplay ==
    /\ possible_words = {w \in Range(words) : Replays(w)}
    /\ possible_words = AllInfo_filter(all_info, Range(words))

\* two rounds have left several candidates and dropped others
C9_Witness ==
    /\ Len(history) >= 2
    /\ Cardinality(possible_words) >= 2
    /\ possible_words # Range(words)

\* the session of the scenario: the five words, secret TRACE, CRANE guessed
ScenarioRound ==
    /\ Range(words) = {CRANE, SLATE, TRACE, GRACE, BRACE}
    /\ secret_word = TRACE
    /\ Len(history) = 1
    /\ history[1].word = CRANE

\* C5, as claimed: with the vocabulary CRANE SLATE TRACE GRACE BRACE and
\* the secret TRACE, the guess CRANE gets C NO_MATCH, R WRONG_POSITION,
\* A CORRECT_POSITION, N NO_MATCH, E CORRECT_POSITION, and merging it leaves
\* possible_words = {TRACE, GRACE, BRACE}.
C5_ScenarioAsClaimed ==
    ScenarioRound =>
        /\ guess_result.result =
              <<NO_MATCH, WRONG_POSITION, CORRECT_POSITION, NO_MATCH, CORRECT_POSITION>>
        /\ possible_words = {TRACE, GRACE, BRACE}

\* C5, amended: in that session the guess CRANE gets C WRONG_POSITION (TRACE
\* holds a C, fourth), R CORRECT_POSITION (the R of TRACE is second too),
\* A CORRECT_POSITION, N NO_MATCH, E CORRECT_POSITION, and merging it leaves
\* possible_words = {TRACE, GRACE, BRACE}.
C5_Scenario ==
    ScenarioRound =>
        /\ guess_result.result =
              <<WRONG_POSITION, CORRECT_POSITION, CORRECT_POSITION, NO_MATCH,
                CORRECT_POSITION>>
        /\ possible_words = {TRACE, GRACE, BRACE}

C5_Witness == ScenarioRound /\ guess_result = history[1]

\* f with the tokens at i and j exchanged
Swap(f, i, j) ==
    [k \in 1..Len(f) |-> IF k = i THEN f[j] ELSE IF k = j THEN f[i] ELSE f[k]]

\* the words file in other orders: two tokens exchanged, or back to front
Reorderings(f) ==
    {Swap(f, i, j) : i, j \in 1..Len(f)} \cup {[k \in 1..Len(f) |-> f[Len(f) + 1 - k]]}

\* neither score is below the other
SameScore(v, w) ==
    /\ ~ScoreLess(Score(possible_words, word_size, v),
                  Score(possible_words, word_size, w), Len(words))
    /\ ~ScoreLess(Score(possible_words, word_size, w),
                  Score(possible_words, word_size, v), Len(words))

\* place of w in the list ws
PlaceIn(ws, w) == SetMin({k \in 1..Len(ws) : ws[k] = w})

----------------------------------------------------------------------------
(* Termination of the solver playing alone, under SpecAutoLive *)

\* C10: with the solver guessing and automatic_check checking, a round
\* whose guess is not the secret leaves the game running with strictly
\* fewer possible_words (automatic_guess has not returned None), and a game
\* under way ends with a guess result that is all CORRECT_POSITION.
C10_AutomaticGameEnds ==
    /\ [][(~user_guess /\ pc = "play" /\ guess' # secret_word) =>
             /\ pc' = "play"
             /\ possible_words' \subseteq possible_words
             /\ possible_words' # possible_words]_vars
    /\ [](~user_guess => pc \notin {"gaveup", "crashed"})
    /\ ((~user_guess /\ pc = "play") ~> (~user_guess /\ pc = "solved"))

\* the solver has found the secret at its third guess or later
C10_Witness ==
    /\ ~user_guess
    /\ pc = "solved"
    /\ num_guesses >= 3
    /\ GuessResult_bool(guess_result)
    /\ guess = secret_word

----------------------------------------------------------------------------
(* Words of the wrong length, under SpecMixed *)

\* the length the round's guess should have: the secret's for
\* automatic_check, the game's word_size for a result the user typed
ExpectedLen == IF user_check THEN word_size ELSE Len(secret_word)

\* C8, as claimed: a round whose guess (and so whose guess result) is not
\* of the expected length ends in an error and leaves all_info and
\* possible_words as they were.
C8_LengthMismatchRejected ==
    [][(num_guesses' = num_guesses + 1 /\ Len(guess') # ExpectedLen) =>
          /\ error' # "none"
          /\ all_info' = all_info
          /\ possible_words' = possible_words]_vars

====
